---- MODULE Spec2Model ----
(***************************************************************************)
(* Sync orchestrator of the recording backup service.                     *)
(*                                                                         *)
(* syncService.js (src/unnamed/part_003, lines 170-415) holds the module   *)
(* state and the two exported operations runSync and getSyncStatus;        *)
(* server.js (src/unnamed/part_000, lines 1-67) holds the three trigger    *)
(* sources: the startup run, the cron schedule and POST /api/sync.         *)
(*                                                                         *)
(* JavaScript runs every handler to its next await without interruption,   *)
(* so an action of the model is the code between two suspension points of  *)
(* one runSync invocation.  The provider, the destination store and the    *)
(* file system are the environment: every awaited call resolves with one   *)
(* of the outcomes the library can produce.                                *)
(***************************************************************************)
EXTENDS Integers, Sequences, FiniteSets, TLC

\* ------------------------------------------------------------------------
\* Bounds of the model
\* ------------------------------------------------------------------------
MaxListing == 2      \* longest provider listing that is explored
MaxClock == 2        \* number of runs that may pass the guards

\* ------------------------------------------------------------------------
\* Domains
\* ------------------------------------------------------------------------
Procs == {"startup", "cron", "manual"}      \* the callers of runSync
Ids == {"m1", "m2"}                         \* recording.meetingId
Urls == {"none", "mp4", "m3u8"}             \* recording.download_url
NoEntry == 0                                \* uploadedRecordings[id] undefined

\* A recording descriptor as the provider lists it.  ready is the provider's
\* transfer-readiness state; download_url "none" is a null/absent locator.
Recs == [meetingId : Ids, download_url : Urls, ready : BOOLEAN]
NoRec == [meetingId |-> "none", download_url |-> "none", ready |-> FALSE]

RECURSIVE SeqsUpTo(_, _)
SeqsUpTo(S, n) ==
    IF n = 0 THEN {<<>>}
    ELSE LET shorter == SeqsUpTo(S, n - 1)
         IN  shorter \cup {Append(q, x) : q \in {r \in shorter : Len(r) = n - 1}, x \in S}

\* A listing is a projection of provider state: an identifier listed twice is
\* listed with the same descriptor.
Listings ==
    {l \in SeqsUpTo(Recs, MaxListing) :
        \A i, j \in 1..Len(l) : l[i].meetingId = l[j].meetingId => l[i] = l[j]}

EmptyLedger == [i \in Ids |-> NoEntry]

\* Error messages of syncService.js
NoError == "null"
MsgGcp == "GCP Storage is not initialized. Check environment variables."
MsgCreds == "Zoho credentials (CLIENT_ID, CLIENT_SECRET, REFRESH_TOKEN) are missing."
MsgNoToken == "Failed to retrieve Zoho Access Token."
MsgTokenHttp == "token request failed"
MsgListHttp == "recordings request failed"
MsgFsWrite == "status file write failed"

\* The RunSummary object literal
Summary(st, ts, pcount, total, err) ==
    [status |-> st, timestamp |-> ts, processedCount |-> pcount,
     totalRecordings |-> total, error |-> err]

\* what a pending promise / a rejected promise of runSync looks like to a caller
NoRet == Summary("pending", 0, 0, 0, NoError)
Rejected == Summary("rejected", 0, 0, 0, NoError)

VARIABLES
    storageReady,        \* storage && bucket were initialised at module load
    zohoCreds,           \* ZOHO_CLIENT_ID, _SECRET and _REFRESH_TOKEN are all set
    isSyncRunning,       \* let isSyncRunning
    lastRunStatus,       \* let lastRunStatus
    uploadedRecordings,  \* let uploadedRecordings (the in-memory ledger)
    statusFile,          \* STATUS_FILE on disk
    clock,               \* logical time of new Date(): the number of runs started
    started,             \* the app.listen callback has run
    pc,                  \* per caller: where its runSync invocation is suspended
    accessToken,         \* per invocation: let accessToken (0 = undefined)
    recordings,          \* per invocation: const recordings
    idx,                 \* per invocation: position of the for-of loop
    processedCount,      \* per invocation: let processedCount
    totalRecordings,     \* per invocation: let totalRecordings
    response,            \* body of the HTTP response sent by the step just taken
    ev,                  \* the step just taken: operation, caller, input, result
    written,             \* per id: number of destination writes that completed
    run,                 \* what the run in progress has done so far
    ledgerIntact,        \* no ledger file loss and no failed ledger write so far
    bucket,              \* the destination store: the keys of its objects
    script               \* the run of a one-shot script variant (see below)

progVars == <<storageReady, zohoCreds, isSyncRunning, lastRunStatus,
              uploadedRecordings, statusFile, clock, started>>
localVars == <<pc, accessToken, recordings, idx, processedCount, totalRecordings>>
obsVars == <<response, ev, written, run, ledgerIntact>>
extVars == <<bucket, script>>
vars == <<progVars, localVars, obsVars, extVars>>

\* ------------------------------------------------------------------------
\* Status ledger
\* ------------------------------------------------------------------------
FileMissing == [exists |-> FALSE, parses |-> FALSE, data |-> EmptyLedger]
FileCorrupt == [exists |-> TRUE, parses |-> FALSE, data |-> EmptyLedger]
FileOf(ledger) == [exists |-> TRUE, parses |-> TRUE, data |-> ledger]

\* loadStatus(): the value of uploadedRecordings after the call
LoadStatusForgetful(mem, file) == EmptyLedger
LoadStatus(mem, file) ==
    IF file.exists
    THEN IF file.parses THEN file.data ELSE EmptyLedger
    ELSE mem

\* updateStatus(meetingId), second statement: the whole ledger replaces the file
WriteStatusFileSkipped(file, ledger) == file
WriteStatusFile(file, ledger) == FileOf(ledger)

\* updateStatus(meetingId), first statement
MarkInMemoryDropped(mem, id, now) == mem
MarkInMemory(mem, id, now) == [mem EXCEPT ![id] = now]

\* if (uploadedRecordings[meetingId]) in the loop of runSync
IsTransferredNever(mem, id) == FALSE
IsTransferred(mem, id) == mem[id] # NoEntry

\* ------------------------------------------------------------------------
\* Observation of a run (history, not program state)
\* ------------------------------------------------------------------------
NoCount == [i \in Ids |-> 0]

\* What is remembered of the run before: how it ended, the source locator it
\* saw listed for each identifier (kept until this run has its own listing to
\* compare with), whether one of its transfers failed and, when the process
\* ended during a transfer, the identifiers it had marked and the one whose
\* transfer was in flight.
NoPrev ==
    [kind |-> "none", urls |-> [i \in Ids |-> "unlisted"], failed |-> FALSE,
     marked |-> {}, inflight |-> "none"]
\* the run before is not being remembered (specification Spec)
OffPrev == [NoPrev EXCEPT !.kind = "off"]
ListedUrls(listing) ==
    [i \in Ids |->
        IF \E k \in 1..Len(listing) : listing[k].meetingId = i
        THEN (CHOOSE r \in {listing[k] : k \in 1..Len(listing)} : r.meetingId = i).download_url
        ELSE "unlisted"]
\* what a run that starts remembers: r is the observation of the run before
\* and status the summary status it left
PrevAtStart(r, status) ==
    IF r.prev.kind = "off" THEN OffPrev
    ELSE IF status = "Completed"
    THEN [NoPrev EXCEPT !.kind = "completed",
                        !.urls = ListedUrls(r.listing),
                        !.failed = r.failed # NoCount]
    ELSE IF status = "Idle" THEN r.prev
    ELSE NoPrev
\* what a new process remembers of the one that ended
PrevAtRestart(r, inflight) ==
    IF r.prev.kind = "off" THEN OffPrev
    ELSE IF inflight # "none" /\ r.marks # NoCount
    THEN [NoPrev EXCEPT !.kind = "crashed",
                        !.marked = {i \in Ids : r.marks[i] > 0},
                        !.inflight = inflight]
    ELSE NoPrev
\* the listing names no recording that the run before did not see, and names
\* each with the source locator it had then
NothingNew(prev, listing) ==
    /\ prev.kind = "completed"
    /\ \A k \in 1..Len(listing) :
          listing[k].download_url = prev.urls[listing[k].meetingId]

FreshRun(loaded, writtenSoFar) ==
    [prev |-> NoPrev,        \* the run before this one
     loaded |-> loaded,      \* uploadedRecordings right after loadStatus()
     base |-> writtenSoFar,  \* destination writes completed before the run
     listing |-> <<>>,       \* what the listing call returned
     nothingNew |-> FALSE,   \* NothingNew held of that listing
     tokenCalls |-> 0,       \* token requests sent
     listCalls |-> 0,        \* listing requests sent
     examined |-> 0,         \* loop iterations finished
     attempts |-> NoCount,   \* source reads started, per id
     failed |-> NoCount,     \* streamToGCS calls that returned false after a read or write error, per id
     marks |-> NoCount,      \* updateStatus calls, per id
     fileKept |-> TRUE]      \* STATUS_FILE was changed by updateStatus only
Bump(f, id) == [f EXCEPT ![id] = @ + 1]

Event(op, p, input, rec, ret) ==
    [op |-> op, proc |-> p, input |-> input, rec |-> rec, ret |-> ret]

\* ------------------------------------------------------------------------
\* Initial state: module load of a first deployment
\* ------------------------------------------------------------------------
\* no script variant is running: the service is what runs
ScriptOff == [variant |-> "none", pc |-> "off"]

ServiceInit(prev) ==
    /\ storageReady \in BOOLEAN
    /\ zohoCreds \in BOOLEAN
    /\ isSyncRunning = FALSE
    /\ lastRunStatus = Summary("Idle", 0, 0, 0, NoError)
    /\ uploadedRecordings = EmptyLedger
    /\ statusFile = FileMissing
    /\ clock = 0
    /\ started = FALSE
    /\ pc = [p \in Procs |-> "idle"]
    /\ accessToken = [p \in Procs |-> 0]
    /\ recordings = [p \in Procs |-> <<>>]
    /\ idx = [p \in Procs |-> 0]
    /\ processedCount = [p \in Procs |-> 0]
    /\ totalRecordings = [p \in Procs |-> 0]
    /\ response = NoRet
    /\ ev = Event("init", "none", "none", NoRec, NoRet)
    /\ written = NoCount
    /\ run = [FreshRun(EmptyLedger, NoCount) EXCEPT !.prev = prev]
    /\ ledgerIntact = TRUE
    /\ bucket = {}

InitWith(prev) == ServiceInit(prev) /\ script = ScriptOff

Init == InitWith(OffPrev)
\* the same program, observed together with what each run succeeds
InitHist == InitWith(NoPrev)

\* ------------------------------------------------------------------------
\* runSync: from the call to the first await
\* ------------------------------------------------------------------------
Finished(p) ==
    /\ pc' = [pc EXCEPT ![p] = "idle"]
    /\ accessToken' = [accessToken EXCEPT ![p] = 0]
    /\ recordings' = [recordings EXCEPT ![p] = <<>>]
    /\ idx' = [idx EXCEPT ![p] = 0]
    /\ processedCount' = [processedCount EXCEPT ![p] = 0]
    /\ totalRecordings' = [totalRecordings EXCEPT ![p] = 0]

\* if (isSyncRunning)
AlreadyRunningNever == FALSE
AlreadyRunning == isSyncRunning

\* the guard branch: log and return lastRunStatus
RunSyncSkipReloading(p) ==
    /\ uploadedRecordings' = LoadStatus(uploadedRecordings, statusFile)
    /\ ev' = Event("runSync", p, "skip", NoRec, lastRunStatus)
    /\ UNCHANGED <<storageReady, zohoCreds, isSyncRunning, lastRunStatus, statusFile, clock>>
    /\ UNCHANGED <<localVars, written, run, ledgerIntact>>
RunSyncSkip(p) ==
    /\ ev' = Event("runSync", p, "skip", NoRec, lastRunStatus)
    /\ UNCHANGED <<storageReady, zohoCreds, isSyncRunning, lastRunStatus,
                   uploadedRecordings, statusFile, clock>>
    /\ UNCHANGED <<localVars, written, run, ledgerIntact>>

\* if (!storage || !bucket): record the Error summary and return it
RunSyncConfigError(p) ==
    /\ lastRunStatus' = Summary("Error", clock, 0, 0, MsgGcp)
    /\ ev' = Event("runSync", p, "config", NoRec, lastRunStatus')
    /\ UNCHANGED <<storageReady, zohoCreds, isSyncRunning, uploadedRecordings,
                   statusFile, clock>>
    /\ UNCHANGED <<localVars, written, run, ledgerIntact>>

\* error: null in the object literals of the Running and the Completed
\* summary: lastRunStatus is replaced whole, nothing of the summary before
\* is kept
CarriedError(previous) == previous
ClearedError(previous) == NoError

\* isSyncRunning = true ... await getAccessToken(): the token request is sent
\* unless getAccessToken throws on missing credentials before sending it
RunSyncStart(p) ==
    /\ pc[p] = "idle"
    /\ clock < MaxClock
    /\ isSyncRunning' = TRUE
    /\ clock' = clock + 1
    /\ lastRunStatus' = Summary("Running", clock', 0, 0,
                                ClearedError(lastRunStatus.error))
    /\ uploadedRecordings' = LoadStatus(uploadedRecordings, statusFile)
    /\ pc' = [pc EXCEPT ![p] = "token"]
    /\ accessToken' = [accessToken EXCEPT ![p] = 0]
    /\ recordings' = [recordings EXCEPT ![p] = <<>>]
    /\ idx' = [idx EXCEPT ![p] = 0]
    /\ processedCount' = [processedCount EXCEPT ![p] = 0]
    /\ totalRecordings' = [totalRecordings EXCEPT ![p] = 0]
    /\ run' = [FreshRun(uploadedRecordings', written) EXCEPT
                  !.tokenCalls = IF zohoCreds THEN 1 ELSE 0,
                  !.prev = PrevAtStart(run, lastRunStatus.status)]
    /\ ev' = Event("runSync", p, "start", NoRec, NoRet)
    /\ UNCHANGED <<storageReady, zohoCreds, statusFile, written, ledgerIntact>>

RunSyncEntry(p) ==
    IF AlreadyRunning THEN RunSyncSkip(p)
    ELSE IF ~storageReady THEN RunSyncConfigError(p)
    ELSE RunSyncStart(p)

\* ------------------------------------------------------------------------
\* server.js: the callers of runSync and the status endpoint
\* ------------------------------------------------------------------------
\* app.listen(PORT, () => { ... runSync(); })
StartupRun ==
    /\ UNCHANGED extVars
    /\ ~started
    /\ started' = TRUE
    /\ RunSyncEntry("startup")
    /\ response' = NoRet

\* cron.schedule('*/30 * * * *', () => { runSync(); })
CronRun ==
    /\ UNCHANGED extVars
    /\ RunSyncEntry("cron")
    /\ response' = NoRet
    /\ UNCHANGED <<started>>

\* status: getSyncStatus() is evaluated after the call runSync() has returned
\* its promise, so it reads what the synchronous head of runSync left
SnapshotBeforeTrigger(before, after) == before
SnapshotAfterTrigger(before, after) == after

\* app.post('/api/sync'): runSync() is not awaited, then res.json(getSyncStatus())
ManualSync ==
    /\ UNCHANGED extVars
    /\ RunSyncEntry("manual")
    /\ response' = SnapshotAfterTrigger(lastRunStatus, lastRunStatus')
    /\ UNCHANGED started

\* getSyncStatus() behind app.get('/api/status')
GetSyncStatusClearing ==
    /\ UNCHANGED extVars
    /\ response' = lastRunStatus
    /\ isSyncRunning' = FALSE
    /\ ev' = Event("status", "none", "none", NoRec, lastRunStatus)
    /\ UNCHANGED <<storageReady, zohoCreds, lastRunStatus, uploadedRecordings,
                   statusFile, clock, started>>
    /\ UNCHANGED <<localVars, written, run, ledgerIntact>>
GetSyncStatus ==
    /\ UNCHANGED extVars
    /\ response' = lastRunStatus
    /\ ev' = Event("status", "none", "none", NoRec, lastRunStatus)
    /\ UNCHANGED <<progVars, localVars, written, run, ledgerIntact>>

\* ------------------------------------------------------------------------
\* runSync: await getAccessToken() resolves
\* ------------------------------------------------------------------------
\* what the token exchange can answer
TokenOutcomes ==
    IF zohoCreds THEN {"ok", "errorPayload", "malformed", "transport"}
    ELSE {"missingCreds"}

\* if (response.data && response.data.access_token)
TokenAcceptedUnchecked(kind) == kind \notin {"transport", "missingCreds"}
TokenAccepted(kind) == kind = "ok"

\* e.message of what getAccessToken throws
TokenMessage(kind) ==
    IF kind = "missingCreds" THEN MsgCreds
    ELSE IF kind = "transport" THEN MsgTokenHttp
    ELSE MsgNoToken

\* catch (e) around await getAccessToken()
TokenFailureUncaught(p, kind) ==
    /\ Finished(p)
    /\ ev' = Event("token", p, kind, NoRec, Rejected)
    /\ response' = NoRet
    /\ UNCHANGED <<progVars, written, run, ledgerIntact>>
TokenFailure(p, kind) ==
    /\ isSyncRunning' = FALSE
    /\ lastRunStatus' = Summary("Error", clock, processedCount[p],
                                totalRecordings[p], TokenMessage(kind))
    /\ Finished(p)
    /\ ev' = Event("token", p, kind, NoRec, lastRunStatus')
    /\ UNCHANGED <<storageReady, zohoCreds, uploadedRecordings, statusFile,
                   clock, started>>
    /\ response' = NoRet
    /\ UNCHANGED <<written, run, ledgerIntact>>

\* return response.data.access_token: the token the exchange of this run
\* issued, named by the number of the run
TokenOfRunCached(now) == 1
TokenOfRun(now) == now

\* the token is stored and fetchRecordings sends the listing request
TokenSuccess(p, kind) ==
    /\ accessToken' = [accessToken EXCEPT ![p] = TokenOfRun(clock)]
    /\ pc' = [pc EXCEPT ![p] = "list"]
    /\ run' = [run EXCEPT !.listCalls = @ + 1]
    /\ ev' = Event("token", p, kind, NoRec, NoRet)
    /\ UNCHANGED <<progVars, recordings, idx, processedCount, totalRecordings>>
    /\ response' = NoRet
    /\ UNCHANGED <<written, ledgerIntact>>

TokenResolve(p) ==
    /\ UNCHANGED extVars
    /\ pc[p] = "token"
    /\ \E kind \in TokenOutcomes :
          IF TokenAccepted(kind) THEN TokenSuccess(p, kind)
          ELSE TokenFailure(p, kind)

\* ------------------------------------------------------------------------
\* runSync: await fetchRecordings(accessToken) resolves
\* ------------------------------------------------------------------------
\* catch (processError) and finally, reached from the listing call
ListFailureAsEmpty(p) ==
    /\ recordings' = [recordings EXCEPT ![p] = <<>>]
    /\ totalRecordings' = [totalRecordings EXCEPT ![p] = 0]
    /\ idx' = [idx EXCEPT ![p] = 1]
    /\ pc' = [pc EXCEPT ![p] = "loop"]
    /\ ev' = Event("list", p, "transport", NoRec, NoRet)
    /\ UNCHANGED <<progVars, accessToken, processedCount>>
    /\ response' = NoRet
    /\ UNCHANGED <<written, run, ledgerIntact>>
ListFailure(p) ==
    /\ isSyncRunning' = FALSE
    /\ lastRunStatus' = Summary("Error", clock, processedCount[p],
                                totalRecordings[p], MsgListHttp)
    /\ Finished(p)
    /\ ev' = Event("list", p, "transport", NoRec, lastRunStatus')
    /\ UNCHANGED <<storageReady, zohoCreds, uploadedRecordings, statusFile,
                   clock, started>>
    /\ response' = NoRet
    /\ UNCHANGED <<written, run, ledgerIntact>>

\* totalRecordings = recordings.length
CountListedNever(listing) == 0
CountListed(listing) == Len(listing)

\* return response.data.data, or [] when the response carries no data
ListSuccess(p, kind, listing) ==
    /\ recordings' = [recordings EXCEPT ![p] = listing]
    /\ totalRecordings' = [totalRecordings EXCEPT ![p] = CountListed(listing)]
    /\ idx' = [idx EXCEPT ![p] = 1]
    /\ pc' = [pc EXCEPT ![p] = "loop"]
    /\ ev' = Event("list", p, kind, NoRec, NoRet)
    /\ run' = [run EXCEPT !.listing = listing,
                          !.nothingNew = NothingNew(run.prev, listing),
                          !.prev = [run.prev EXCEPT !.urls = NoPrev.urls]]
    /\ UNCHANGED <<progVars, accessToken, processedCount>>
    /\ response' = NoRet
    /\ UNCHANGED <<written, ledgerIntact>>

ListResolve(p) ==
    /\ UNCHANGED extVars
    /\ pc[p] = "list"
    /\ \/ \E listing \in Listings : ListSuccess(p, "ok", listing)
       \/ ListSuccess(p, "noData", <<>>)
       \/ ListFailure(p)

\* ------------------------------------------------------------------------
\* runSync: the for-of loop over the listing
\* ------------------------------------------------------------------------
\* streamToGCS before its try block: which path the recording takes
StreamPrecheck(rec) ==
    IF rec.download_url = "none" THEN "noUrl"
    ELSE IF rec.download_url = "m3u8" THEN "m3u8"
    ELSE "stream"

\* one iteration up to the source read request: ledger check, then the
\* synchronous part of streamToGCS.  An iteration that skips its recording
\* does not wait for I/O; taking it as a step of its own only adds
\* interleavings with the callers of runSync, which the guard turns away.
LoopStep(p) ==
    /\ UNCHANGED extVars
    /\ pc[p] = "loop"
    /\ idx[p] <= Len(recordings[p])
    /\ LET rec == recordings[p][idx[p]]
           path == StreamPrecheck(rec)
       IN  IF IsTransferred(uploadedRecordings, rec.meetingId)
           THEN /\ idx' = [idx EXCEPT ![p] = @ + 1]
                /\ run' = [run EXCEPT !.examined = @ + 1]
                /\ ev' = Event("loop", p, "inLedger", rec, NoRet)
                /\ UNCHANGED pc
           ELSE IF path # "stream"
           THEN /\ idx' = [idx EXCEPT ![p] = @ + 1]
                /\ run' = [run EXCEPT !.examined = @ + 1]
                /\ ev' = Event("loop", p, path, rec, NoRet)
                /\ UNCHANGED pc
           ELSE /\ pc' = [pc EXCEPT ![p] = "get"]
                /\ run' = [run EXCEPT !.attempts = Bump(@, rec.meetingId)]
                /\ ev' = Event("loop", p, path, rec, NoRet)
                /\ UNCHANGED idx
    /\ UNCHANGED <<progVars, accessToken, recordings, processedCount, totalRecordings>>
    /\ response' = NoRet
    /\ UNCHANGED <<written, ledgerIntact>>

\* the loop is exhausted: publish Completed, then finally
RunComplete(p) ==
    /\ UNCHANGED extVars
    /\ pc[p] = "loop"
    /\ idx[p] > Len(recordings[p])
    /\ lastRunStatus' = Summary("Completed", clock, processedCount[p],
                                totalRecordings[p],
                                ClearedError(lastRunStatus.error))
    /\ isSyncRunning' = FALSE
    /\ Finished(p)
    /\ ev' = Event("complete", p, "none", NoRec, lastRunStatus')
    /\ UNCHANGED <<storageReady, zohoCreds, uploadedRecordings, statusFile,
                   clock, started>>
    /\ response' = NoRet
    /\ UNCHANGED <<written, run, ledgerIntact>>

\* ------------------------------------------------------------------------
\* streamToGCS: the two awaits of the direct transfer
\* ------------------------------------------------------------------------
\* outcome of await pipeline(...) -> is `return true` reached
StreamResultAlways(outcome) == TRUE
StreamResult(outcome) == outcome = "ok"

\* catch (error) { return false } ; if (success) is not taken
TransferFailedAborts(p, op, input) ==
    /\ isSyncRunning' = FALSE
    /\ lastRunStatus' = Summary("Error", clock, processedCount[p],
                                totalRecordings[p], input)
    /\ Finished(p)
    /\ run' = [run EXCEPT !.failed = Bump(@, recordings[p][idx[p]].meetingId)]
    /\ ev' = Event(op, p, input, recordings[p][idx[p]], lastRunStatus')
    /\ UNCHANGED <<storageReady, zohoCreds, uploadedRecordings, statusFile,
                   clock, started>>
    /\ response' = NoRet
    /\ UNCHANGED <<ledgerIntact>>
TransferFailedRetries(p, op, input) ==
    /\ pc' = [pc EXCEPT ![p] = "loop"]
    /\ run' = [run EXCEPT !.failed = Bump(@, recordings[p][idx[p]].meetingId)]
    /\ ev' = Event(op, p, input, recordings[p][idx[p]], NoRet)
    /\ UNCHANGED <<progVars, accessToken, recordings, idx, processedCount,
                   totalRecordings>>
    /\ response' = NoRet
    /\ UNCHANGED <<ledgerIntact>>
TransferFailed(p, op, input) ==
    /\ idx' = [idx EXCEPT ![p] = @ + 1]
    /\ pc' = [pc EXCEPT ![p] = "loop"]
    /\ run' = [run EXCEPT !.failed = Bump(@, recordings[p][idx[p]].meetingId),
                          !.examined = @ + 1]
    /\ ev' = Event(op, p, input, recordings[p][idx[p]], NoRet)
    /\ UNCHANGED <<progVars, accessToken, recordings, processedCount, totalRecordings>>
    /\ response' = NoRet
    /\ UNCHANGED <<ledgerIntact>>

\* return true ; updateStatus(meetingId) ; processedCount++
\* fs is what writeFileSync does: "ok", "denied" (throws, file untouched)
\* or "truncated" (throws after the file was opened for writing)
TransferSucceeded(p, op, input, fs) ==
    LET rec == recordings[p][idx[p]]
        id == rec.meetingId
    IN  /\ uploadedRecordings' = MarkInMemory(uploadedRecordings, id, clock)
        /\ run' = [run EXCEPT !.marks = Bump(@, id),
                              !.examined = IF fs = "ok" THEN @ + 1 ELSE @]
        /\ IF fs = "ok"
           THEN /\ statusFile' = WriteStatusFile(statusFile, uploadedRecordings')
                /\ processedCount' = [processedCount EXCEPT ![p] = @ + 1]
                /\ idx' = [idx EXCEPT ![p] = @ + 1]
                /\ pc' = [pc EXCEPT ![p] = "loop"]
                /\ ev' = Event(op, p, input, rec, NoRet)
                /\ UNCHANGED <<isSyncRunning, lastRunStatus, accessToken,
                               recordings, totalRecordings, ledgerIntact>>
           ELSE /\ statusFile' = IF fs = "truncated" THEN FileCorrupt ELSE statusFile
                /\ isSyncRunning' = FALSE
                /\ lastRunStatus' = Summary("Error", clock, processedCount[p],
                                            totalRecordings[p], MsgFsWrite)
                /\ Finished(p)
                /\ ledgerIntact' = FALSE
                /\ ev' = Event(op, p, fs, rec, lastRunStatus')
        /\ response' = NoRet
        /\ UNCHANGED <<storageReady, zohoCreds, clock, started>>

\* await axios({ method: 'get', responseType: 'stream' }) resolves; on success
\* the destination write stream is created and the pipeline started
GetResolve(p) ==
    /\ UNCHANGED extVars
    /\ pc[p] = "get"
    /\ \/ /\ pc' = [pc EXCEPT ![p] = "pipe"]
          /\ ev' = Event("get", p, "ok", recordings[p][idx[p]], NoRet)
          /\ UNCHANGED <<progVars, accessToken, recordings, idx, processedCount,
                         totalRecordings>>
          /\ response' = NoRet
          /\ UNCHANGED <<run, ledgerIntact>>
       \/ TransferFailed(p, "get", "readError")
    /\ UNCHANGED written

\* await pipeline(response.data, gcsStream) resolves
\* const destination = `${meetingId}.mp4`: the key is the identifier alone
DestinationKeyStamped(id, now) == <<id, now>>
DestinationKey(id, now) == <<id, 0>>
PipeOutcomes == {"ok", "readError", "writeError", "closed"}
FsOutcomes == {"ok", "denied", "truncated"}

PipeResolve(p) ==
    /\ pc[p] = "pipe"
    /\ UNCHANGED script
    /\ \E outcome \in PipeOutcomes :
          /\ written' = IF outcome = "ok"
                        THEN Bump(written, recordings[p][idx[p]].meetingId)
                        ELSE written
          /\ bucket' = IF outcome = "ok"
                       THEN bucket \cup {DestinationKey(recordings[p][idx[p]].meetingId, clock)}
                       ELSE bucket
          /\ IF StreamResult(outcome)
             THEN \E fs \in FsOutcomes : TransferSucceeded(p, "pipe", outcome, fs)
             ELSE TransferFailed(p, "pipe", outcome)

\* ------------------------------------------------------------------------
\* Environment: the ledger file and the process
\* ------------------------------------------------------------------------
\* STATUS_FILE is removed from outside
FileDelete ==
    /\ UNCHANGED extVars
    /\ statusFile.exists
    /\ statusFile' = FileMissing
    /\ ledgerIntact' = FALSE
    /\ run' = [run EXCEPT !.fileKept = FALSE]
    /\ ev' = Event("fileDelete", "none", "none", NoRec, NoRet)
    /\ UNCHANGED <<storageReady, zohoCreds, isSyncRunning, lastRunStatus,
                   uploadedRecordings, clock, started>>
    /\ response' = NoRet
    /\ UNCHANGED <<localVars, written>>

\* STATUS_FILE is overwritten from outside with something JSON.parse rejects
FileDamage ==
    /\ UNCHANGED extVars
    /\ statusFile.exists
    /\ statusFile.parses
    /\ statusFile' = FileCorrupt
    /\ ledgerIntact' = FALSE
    /\ run' = [run EXCEPT !.fileKept = FALSE]
    /\ ev' = Event("fileDamage", "none", "none", NoRec, NoRet)
    /\ UNCHANGED <<storageReady, zohoCreds, isSyncRunning, lastRunStatus,
                   uploadedRecordings, clock, started>>
    /\ response' = NoRet
    /\ UNCHANGED <<localVars, written>>

\* the identifier whose transfer is awaited, "none" if no transfer is
InFlight ==
    IF \E p \in Procs : pc[p] \in {"get", "pipe"}
    THEN LET p == CHOOSE q \in Procs : pc[q] \in {"get", "pipe"}
         IN  recordings[p][idx[p]].meetingId
    ELSE "none"

\* the process ends and a new one loads the module again
Restart ==
    /\ UNCHANGED extVars
    /\ isSyncRunning' = FALSE
    /\ lastRunStatus' = Summary("Idle", clock, 0, 0, NoError)
    /\ uploadedRecordings' = EmptyLedger
    /\ started' = FALSE
    /\ pc' = [p \in Procs |-> "idle"]
    /\ accessToken' = [p \in Procs |-> 0]
    /\ recordings' = [p \in Procs |-> <<>>]
    /\ idx' = [p \in Procs |-> 0]
    /\ processedCount' = [p \in Procs |-> 0]
    /\ totalRecordings' = [p \in Procs |-> 0]
    /\ response' = NoRet
    /\ run' = [FreshRun(EmptyLedger, written) EXCEPT
                  !.prev = PrevAtRestart(run, InFlight)]
    /\ ev' = Event("restart", "none", "none", NoRec, NoRet)
    /\ UNCHANGED <<storageReady, zohoCreds, statusFile, clock, written, ledgerIntact>>

\* ------------------------------------------------------------------------
\* Specification
\* ------------------------------------------------------------------------
Next ==
    \/ StartupRun
    \/ CronRun
    \/ ManualSync
    \/ GetSyncStatus
    \/ \E p \in Procs : TokenResolve(p)
    \/ \E p \in Procs : ListResolve(p)
    \/ \E p \in Procs : LoopStep(p)
    \/ \E p \in Procs : RunComplete(p)
    \/ \E p \in Procs : GetResolve(p)
    \/ \E p \in Procs : PipeResolve(p)
    \/ FileDelete
    \/ FileDamage
    \/ Restart

Spec == Init /\ [][Next]_vars
SpecHist == InitHist /\ [][Next]_vars

\* the step a run in progress takes next: the await it is parked on settles
\* (resolved or rejected) or the synchronous stretch after it runs
RunStep(p) ==
    \/ TokenResolve(p)
    \/ ListResolve(p)
    \/ LoopStep(p)
    \/ RunComplete(p)
    \/ GetResolve(p)
    \/ PipeResolve(p)

\* every I/O call of a run eventually returns or fails, and the event loop
\* then runs the continuation
SpecLive == Init /\ [][Next]_vars /\ \A p \in Procs : WF_vars(RunStep(p))

\* ------------------------------------------------------------------------
\* The one-shot scripts: src/index.js ("index"), the variant that deletes
\* the source recording after upload, src/unnamed/part_002 ("deleting"), the
\* standalone scheduled script, src/unnamed/part_001 ("cron", one of its
\* runs), and the local-file script, src/scripts/sync.js ("buffered").
\* A script run is one process: it loads the ledger, gets a token, lists,
\* loops over the listing and ends.  `script` holds its state:
\*   pc          where the run is suspended, or how the process ended
\*   token       what getAccessToken returned
\*   listedWith  the token the listing request was sent with
\*   ledger      identifiers in uploadedRecordings; file: those in STATUS_FILE
\*   local       identifiers that have a file in DOWNLOAD_DIR
\*   deleted     identifiers whose source recording was deleted
\*   op, input, id   the step just taken, its outcome and its recording
\* ------------------------------------------------------------------------
Variants == {"index", "deleting", "cron", "buffered"}

ScriptInit(variant, ledgerIds) ==
    [variant |-> variant, pc |-> "start", token |-> "none", listedWith |-> "none",
     listing |-> <<>>, idx |-> 0, ledger |-> ledgerIds, file |-> ledgerIds,
     loaded |-> ledgerIds, local |-> {}, count |-> 0, deleted |-> {},
     op |-> "init", input |-> "none", id |-> "none"]

Step(s, op, input, id) == [s EXCEPT !.op = op, !.input = input, !.id = id]
Goto(s, pcNew) == [s EXCEPT !.pc = pcNew]
NextRecording(s) == [s EXCEPT !.idx = @ + 1, !.pc = "loop"]

\* the process after runSync/main caught an error (or did not catch it)
\* index.js 190-192, part_002 221-224: process.exit(1); part_001 148-150: log
\* and return; sync.js 184-190: process.exit(1) for the token only
AbortExit(variant) ==
    IF variant = "cron" THEN "done" ELSE "exit1"
\* index.js 164, part_001 130: if (!initGCP()) return; part_002 186-190 and
\* sync.js 19-39: process.exit(1)
ConfigExit(variant) ==
    IF variant \in {"index", "cron"} THEN "done" ELSE "exit1"

ScriptStart ==
    /\ script.pc = "start"
    /\ \E ready \in BOOLEAN :
          script' = IF ready
                    THEN Goto(Step(script, "start", "ok", "none"), "token")
                    ELSE Goto(Step(script, "start", "noGcp", "none"),
                              ConfigExit(script.variant))
    /\ UNCHANGED <<progVars, localVars, obsVars, bucket>>

\* getAccessToken of each script: "throws", or the value it returns
\* index.js 92-95 and part_002: throw on response.data.error, then return
\* response.data.access_token unchecked; part_001 82: return it unchecked;
\* sync.js 70-74: throw unless response.data.access_token
ScriptTokenResult(variant, kind) ==
    IF kind = "transport" THEN "throws"
    ELSE IF kind = "ok" THEN "valid"
    ELSE IF variant = "buffered" THEN "throws"
    ELSE IF variant = "cron" THEN "undefined"
    ELSE IF kind = "errorPayload" THEN "throws"
    ELSE "undefined"

\* await getAccessToken() resolves; fetchRecordings(token) sends its request
ScriptToken ==
    /\ script.pc = "token"
    /\ \E kind \in {"ok", "errorPayload", "malformed", "transport"} :
          LET r == ScriptTokenResult(script.variant, kind)
              s == Step(script, "token", kind, "none")
          IN  script' = IF r = "throws"
                        THEN Goto(s, AbortExit(script.variant))
                        ELSE [s EXCEPT !.pc = "list", !.token = r, !.listedWith = r]
    /\ UNCHANGED <<progVars, localVars, obsVars, bucket>>

\* what the provider answers to the listing request: it turns away a request
\* without a token
ScriptListOutcomes(token) ==
    IF token = "valid" THEN {"ok", "noData", "transport"} ELSE {"transport"}

\* a rejected listing request: caught by the try of runSync; main of sync.js
\* (line 192) awaits it outside any try, so the rejection ends the process
ListExit(variant) ==
    IF variant = "buffered" THEN "crashed" ELSE AbortExit(variant)

\* await fetchRecordings(token) resolves: response.data.recordings || [],
\* response.data.data || []
ScriptList ==
    /\ script.pc = "list"
    /\ \E kind \in ScriptListOutcomes(script.token) :
          LET s == Step(script, "list", kind, "none")
          IN  \/ /\ kind = "ok"
                 /\ \E listing \in Listings :
                       script' = [s EXCEPT !.listing = listing, !.idx = 1, !.pc = "loop"]
              \/ /\ kind = "noData"
                 /\ script' = [s EXCEPT !.listing = <<>>, !.idx = 1, !.pc = "loop"]
              \/ /\ kind = "transport"
                 /\ script' = Goto(s, ListExit(script.variant))
    /\ UNCHANGED <<progVars, localVars, obsVars, bucket>>

\* the part of streamToGCS / downloadAndConvert before its first await
\* index.js 124-132 and part_002: readiness, then the locator; part_001
\* 99-102: the locator, .m3u8 is skipped; sync.js 111-135: the locator,
\* .m3u8 goes to ffmpeg
ScriptPrecheck(variant, rec) ==
    IF variant \in {"index", "deleting"}
    THEN IF ~rec.ready THEN "notReady"
         ELSE IF rec.download_url = "none" THEN "noUrl"
         ELSE "stream"
    ELSE IF rec.download_url = "none" THEN "noUrl"
    ELSE IF rec.download_url = "mp4" THEN "stream"
    ELSE IF variant = "cron" THEN "m3u8"
    ELSE "ffmpeg"

\* execSync(ffmpeg ... "-y" filePath): the output file is complete, or the
\* command failed before or after it created the file
FfmpegOutcomes == {"ok", "failed", "failedPartial"}

\* one iteration up to the first await; execSync of sync.js is synchronous
ScriptLoop ==
    /\ script.pc = "loop"
    /\ IF script.idx > Len(script.listing)
       THEN script' = Goto(Step(script, "complete", "none", "none"), "done")
       ELSE LET rec == script.listing[script.idx]
                id == rec.meetingId
                path == ScriptPrecheck(script.variant, rec)
            IN  IF id \in script.ledger
                THEN script' = NextRecording(Step(script, "loop", "inLedger", id))
                ELSE IF path = "stream"
                THEN script' = Goto(Step(script, "loop", path, id), "get")
                ELSE IF path = "ffmpeg"
                THEN \E outcome \in FfmpegOutcomes :
                        LET s == Step(script, "ffmpeg", outcome, id)
                        IN  script' =
                              IF outcome = "ok"
                              THEN [s EXCEPT !.local = @ \cup {id}, !.pc = "upload"]
                              ELSE IF outcome = "failedPartial"
                              THEN NextRecording([s EXCEPT !.local = @ \cup {id}])
                              ELSE NextRecording(s)
                ELSE script' = NextRecording(Step(script, "loop", path, id))
    /\ UNCHANGED <<progVars, localVars, obsVars, bucket>>

\* await axios({ method: 'get', responseType: 'stream' }) resolves; a
\* rejection is caught by streamToGCS (return false) or by main of sync.js
\* (catch (processError), filePath still null)
ScriptGet ==
    /\ script.pc = "get"
    /\ \E outcome \in {"ok", "readError"} :
          LET s == Step(script, "get", outcome, script.listing[script.idx].meetingId)
          IN  script' = IF outcome = "ok" THEN Goto(s, "pipe") ELSE NextRecording(s)
    /\ UNCHANGED <<progVars, localVars, obsVars, bucket>>

\* saveStatus / updateStatus: mark in memory, then rewrite the file
ScriptMarkSkipped(s, id, fs) == s
ScriptMark(s, id, fs) ==
    [s EXCEPT !.ledger = @ \cup {id},
              !.file = IF fs = "ok" THEN s.ledger \cup {id} ELSE @]

\* the streaming scripts: await pipeline(...) resolves, then saveStatus, then
\* deleteFromZoho (part_002) or count++
StreamingPipe ==
    LET id == script.listing[script.idx].meetingId
    IN  \E outcome \in PipeOutcomes :
          IF outcome = "ok"
          THEN /\ bucket' = bucket \cup {DestinationKey(id, 0)}
               /\ \E fs \in {"ok", "denied"} :
                     LET s == ScriptMark(Step(script, "pipe", IF fs = "ok" THEN "ok" ELSE fs, id),
                                         id, fs)
                     IN  script' =
                           IF fs # "ok" THEN Goto(s, AbortExit(script.variant))
                           ELSE IF script.variant = "deleting" THEN Goto(s, "delete")
                           ELSE NextRecording([s EXCEPT !.count = @ + 1])
          ELSE /\ bucket' = bucket
               /\ script' = NextRecording(Step(script, "pipe", outcome, id))

\* sync.js 145-155: response.data.pipe(writer) and a promise that settles on
\* the writer's finish or error only.  A failure of the source stream is not
\* forwarded to the writer: the promise stays pending, or the unhandled
\* 'error' event ends the process.
BufferedOutcomes == {"ok", "writeError", "openError", "readError", "closed"}
BufferedPipe ==
    LET id == script.listing[script.idx].meetingId
    IN  /\ bucket' = bucket
        /\ \E outcome \in BufferedOutcomes :
              LET s == Step(script, "pipe", outcome, id)
                  withFile == [s EXCEPT !.local = @ \cup {id}]
              IN  \/ outcome = "ok" /\ script' = Goto(withFile, "upload")
                  \/ outcome = "writeError" /\ script' = NextRecording(withFile)
                  \/ outcome = "openError" /\ script' = NextRecording(s)
                  \/ /\ outcome \in {"readError", "closed"}
                     /\ \E end \in {"stuck", "crashed"} : script' = Goto(withFile, end)

ScriptPipe ==
    /\ script.pc = "pipe"
    /\ IF script.variant = "buffered" THEN BufferedPipe ELSE StreamingPipe
    /\ UNCHANGED <<progVars, localVars, obsVars>>

\* sync.js 203-216: await uploadToGCS resolves, updateStatus, and the finally
\* block: if (filePath) await cleanup(filePath)
Cleanup(files, id) == files \ {id}

ScriptUpload ==
    /\ script.pc = "upload"
    /\ LET id == script.listing[script.idx].meetingId
       IN  \E outcome \in {"ok", "failed"} :
             IF outcome = "ok"
             THEN /\ bucket' = bucket \cup {DestinationKey(id, 0)}
                  /\ \E fs \in {"ok", "denied"} :
                        LET s == ScriptMark(Step(script, "upload", fs, id), id, fs)
                        IN  script' = NextRecording(
                               [s EXCEPT !.local = Cleanup(@, id),
                                         !.count = IF fs = "ok" THEN @ + 1 ELSE @])
             ELSE /\ bucket' = bucket
                  /\ script' = NextRecording(
                        [Step(script, "upload", outcome, id) EXCEPT
                            !.local = Cleanup(@, id)])
    /\ UNCHANGED <<progVars, localVars, obsVars>>

\* part_002 167-181 and 214-216: await deleteFromZoho resolves (it catches
\* its own errors and returns false), then count++
ScriptDelete ==
    /\ script.pc = "delete"
    /\ LET id == script.listing[script.idx].meetingId
       IN  \E outcome \in {"ok", "failed"} :
             script' = NextRecording(
                [Step(script, "delete", outcome, id) EXCEPT
                    !.deleted = IF outcome = "ok" THEN @ \cup {id} ELSE @,
                    !.count = @ + 1])
    /\ UNCHANGED <<progVars, localVars, obsVars, bucket>>

NextScripts ==
    \/ ScriptStart
    \/ ScriptToken
    \/ ScriptList
    \/ ScriptLoop
    \/ ScriptGet
    \/ ScriptPipe
    \/ ScriptUpload
    \/ ScriptDelete

\* a configured deployment with some ledger on disk runs one of the scripts
InitScripts ==
    /\ ServiceInit(OffPrev)
    /\ storageReady /\ zohoCreds
    /\ \E variant \in Variants, ledgerIds \in SUBSET Ids :
          script = ScriptInit(variant, ledgerIds)

SpecScripts == InitScripts /\ [][NextScripts]_vars

\* ------------------------------------------------------------------------
\* The standalone scheduled script, src/unnamed/part_001, as a process: the
\* immediate run of line 159 ("boot") and a run started by the cron callback
\* of lines 154-156 ("tick").  uploadedRecordings and status.json are shared
\* by the runs; token, recordings and count are locals of each run.  The
\* provider's recordings do not change while the two runs are under way.
\* ------------------------------------------------------------------------
Invocations == {"boot", "tick"}

SchedInit(ledgerIds, provider) ==
    [variant |-> "sched",
     pc |-> [i \in Invocations |-> "idle"],
     listing |-> [i \in Invocations |-> <<>>],
     idx |-> [i \in Invocations |-> 0],
     count |-> [i \in Invocations |-> 0],
     ledger |-> {}, file |-> ledgerIds, provider |-> provider,
     op |-> "init", input |-> "none", id |-> "none", inv |-> "none"]

SchedStep(s, i, op, input, id) ==
    [s EXCEPT !.op = op, !.input = input, !.id = id, !.inv = i]
SchedGoto(s, i, pcNew) == [s EXCEPT !.pc[i] = pcNew]
SchedNextRecording(s, i) == [s EXCEPT !.idx[i] = @ + 1, !.pc[i] = "loop"]

\* the recording run i is at
SchedCurrent(i) ==
    IF script.idx[i] \in 1..Len(script.listing[i])
    THEN script.listing[i][script.idx[i]].meetingId
    ELSE "none"

\* cron.schedule(SYNC_CRON_SCHEDULE, () => { runSync(); }): the callback
\* calls runSync whatever an earlier call is doing
SchedMayFire(i) ==
    i = "tick" => script.pc["boot"] # "idle"

\* runSync up to await getAccessToken(): initGCP(), loadStatus()
SchedStart(i) ==
    /\ script.variant = "sched"
    /\ script.pc[i] = "idle"
    /\ SchedMayFire(i)
    /\ script' = [SchedGoto(SchedStep(script, i, "start", "ok", "none"), i, "token")
                     EXCEPT !.ledger = script.file]
    /\ UNCHANGED <<progVars, localVars, obsVars, bucket>>

\* await getAccessToken() settles; fetchRecordings(token) sends its request
SchedToken(i) ==
    /\ script.variant = "sched"
    /\ script.pc[i] = "token"
    /\ \E kind \in {"ok", "transport"} :
          LET s == SchedStep(script, i, "token", kind, "none")
          IN  script' = SchedGoto(s, i, IF kind = "ok" THEN "list" ELSE "done")
    /\ UNCHANGED <<progVars, localVars, obsVars, bucket>>

\* await fetchRecordings(token) settles: response.data.data || []
SchedList(i) ==
    /\ script.variant = "sched"
    /\ script.pc[i] = "list"
    /\ \E kind \in {"ok", "noData", "transport"} :
          LET s == SchedStep(script, i, "list", kind, "none")
          IN  script' =
                IF kind = "transport" THEN SchedGoto(s, i, "done")
                ELSE [s EXCEPT !.listing[i] = IF kind = "ok" THEN script.provider ELSE <<>>,
                               !.idx[i] = 1, !.pc[i] = "loop"]
    /\ UNCHANGED <<progVars, localVars, obsVars, bucket>>

\* one iteration up to the source read request, or the end of the loop
SchedLoop(i) ==
    /\ script.variant = "sched"
    /\ script.pc[i] = "loop"
    /\ IF script.idx[i] > Len(script.listing[i])
       THEN script' = SchedGoto(SchedStep(script, i, "loop", "complete", "none"), i, "done")
       ELSE LET rec == script.listing[i][script.idx[i]]
                id == rec.meetingId
                path == IF id \in script.ledger THEN "inLedger"
                        ELSE ScriptPrecheck("cron", rec)
                s == SchedStep(script, i, "loop", path, id)
            IN  script' = IF path = "stream" THEN SchedGoto(s, i, "get")
                          ELSE SchedNextRecording(s, i)
    /\ UNCHANGED <<progVars, localVars, obsVars, bucket>>

\* await axios({method: 'get', responseType: 'stream'}) settles
SchedGet(i) ==
    /\ script.variant = "sched"
    /\ script.pc[i] = "get"
    /\ \E outcome \in {"ok", "readError"} :
          LET s == SchedStep(script, i, "get", outcome, SchedCurrent(i))
          IN  script' = IF outcome = "ok" THEN SchedGoto(s, i, "pipe")
                        ELSE SchedNextRecording(s, i)
    /\ UNCHANGED <<progVars, localVars, obsVars, bucket>>

\* await pipeline(response.data, writeStream) settles; saveStatus, count++
SchedPipe(i) ==
    /\ script.variant = "sched"
    /\ script.pc[i] = "pipe"
    /\ LET id == SchedCurrent(i)
       IN  \E outcome \in PipeOutcomes :
             IF outcome = "ok"
             THEN /\ bucket' = bucket \cup {DestinationKey(id, 0)}
                  /\ \E fs \in {"ok", "denied"} :
                        LET s == ScriptMark(SchedStep(script, i, "pipe", fs, id), id, fs)
                        IN  script' = IF fs = "ok"
                                      THEN SchedNextRecording([s EXCEPT !.count[i] = @ + 1], i)
                                      ELSE SchedGoto(s, i, "done")
             ELSE /\ bucket' = bucket
                  /\ script' = SchedNextRecording(SchedStep(script, i, "pipe", outcome, id), i)
    /\ UNCHANGED <<progVars, localVars, obsVars>>

NextSched ==
    \/ \E i \in Invocations : SchedStart(i)
    \/ \E i \in Invocations : SchedToken(i)
    \/ \E i \in Invocations : SchedList(i)
    \/ \E i \in Invocations : SchedLoop(i)
    \/ \E i \in Invocations : SchedGet(i)
    \/ \E i \in Invocations : SchedPipe(i)

InitSched ==
    /\ ServiceInit(OffPrev)
    /\ storageReady /\ zohoCreds
    /\ \E ledgerIds \in SUBSET Ids, provider \in Listings :
          script = SchedInit(ledgerIds, provider)

SpecSched == InitSched /\ [][NextSched]_vars

\* ------------------------------------------------------------------------
\* Vocabulary of the properties
\* ------------------------------------------------------------------------
Active == {p \in Procs : pc[p] # "idle"}
TransferErrors == {"readError", "writeError", "closed"}
FsErrors == {"denied", "truncated"}
InLedger(id) ==
    \/ uploadedRecordings[id] # NoEntry
    \/ statusFile.exists /\ statusFile.parses /\ statusFile.data[id] # NoEntry
\* destination writes that completed since the current run began
RunWrites(id) == written[id] - run.base[id]
\* the step just taken made the run raise: token, listing or ledger write
TokenRaised == ev.op = "token" /\ ev.input # "ok"
ListRaised == ev.op = "list" /\ ev.input = "transport"
LedgerWriteRaised == ev.op = "pipe" /\ ev.input \in FsErrors
TransferRaised == ev.op \in {"get", "pipe"} /\ ev.input \in TransferErrors
RaisedMessage ==
    IF ev.op = "token" THEN TokenMessage(ev.input)
    ELSE IF ev.op = "list" THEN MsgListHttp
    ELSE MsgFsWrite
RunUntouched ==
    /\ run.attempts = NoCount
    /\ run.marks = NoCount
    /\ \A id \in Ids : RunWrites(id) = 0
    /\ uploadedRecordings = run.loaded

\* ------------------------------------------------------------------------
\* C1  At most one execution of runSync's body (token acquisition, listing,
\*     transfer loop) is in progress at any time, whatever the interleaving
\*     of the startup run, the cron schedule and the manual trigger.
\* ------------------------------------------------------------------------
C1_SingleFlight ==
    /\ Cardinality(Active) <= 1
    /\ (Active # {}) => isSyncRunning

\* a run is in the middle of a transfer and another caller was just turned away
C1_Witness ==
    /\ ev.op = "runSync" /\ ev.input = "skip"
    /\ \E p \in Procs : pc[p] = "pipe" /\ p # ev.proc

\* ------------------------------------------------------------------------
\* C2  runSync() invoked while a run is Running returns the in-progress
\*     summary (status Running) and changes nothing: no token acquisition,
\*     no ledger load, no listing, no transfer; isSyncRunning, lastRunStatus
\*     and the ledger (in memory and on disk) stay as they are.
\* ------------------------------------------------------------------------
C2_SkipIsNoOp ==
    [][(ev'.op = "runSync" /\ lastRunStatus.status = "Running")
          => /\ ev'.ret = lastRunStatus
             /\ ev'.ret.status = "Running"
             /\ UNCHANGED <<isSyncRunning, lastRunStatus, uploadedRecordings,
                            statusFile, clock, localVars, written, run>>]_vars

C2_Witness ==
    /\ ev.op = "runSync" /\ ev.input = "skip"
    /\ ev.ret.status = "Running"
    /\ \E p \in Procs : pc[p] = "get"
    /\ statusFile # FileOf(uploadedRecordings)

\* ------------------------------------------------------------------------
\* C3  Every identifier in the ledger, in memory or persisted, was the
\*     subject of a destination write that had completed successfully when
\*     the identifier was added.
\* ------------------------------------------------------------------------
C3_LedgerImpliesWritten ==
    \A id \in Ids : InLedger(id) => written[id] >= 1

C3_Witness ==
    \E id \in Ids :
        /\ uploadedRecordings[id] # NoEntry
        /\ statusFile = FileOf(uploadedRecordings)
        /\ written[id] = 1
        /\ ev.op = "pipe" /\ ev.input = "ok" /\ ev.rec.meetingId = id

C5_MarkOncePerRun ==
    \A id \in Ids :
        /\ run.marks[id] <= 1
        /\ run.marks[id] <= RunWrites(id)

\* the listing names the same identifier twice; the first was written and
\* marked, the second has been passed over
C5_Witness ==
    \E p \in Procs :
        /\ pc[p] = "loop" /\ Len(recordings[p]) = 2 /\ idx[p] = 3
        /\ recordings[p][1].meetingId = recordings[p][2].meetingId
        /\ run.marks[recordings[p][1].meetingId] = 1

\* ------------------------------------------------------------------------
\* C6  (as claimed) runSync() never rejects: if token acquisition, listing,
\*     a transfer or the ledger write raises, the run ends with status Error
\*     and the failure message, isSyncRunning is false and the call returns
\*     the summary.
\* ------------------------------------------------------------------------
C6_EveryRaiseEndsInError ==
    /\ ev.ret # Rejected
    /\ (TokenRaised \/ ListRaised \/ LedgerWriteRaised \/ TransferRaised) =>
          /\ lastRunStatus.status = "Error"
          /\ lastRunStatus.error # NoError
          /\ ~isSyncRunning
          /\ ev.ret = lastRunStatus

\* C6  (amended) runSync() never rejects: if token acquisition, listing or
\*     the ledger write raises, the run ends with status Error and the
\*     failure message, isSyncRunning is false and the call returns the
\*     summary; an error raised by a transfer is caught inside streamToGCS,
\*     nothing is returned yet and the run goes on.
C6_FailsClosed ==
    /\ ev.ret # Rejected
    /\ (TokenRaised \/ ListRaised \/ LedgerWriteRaised) =>
          /\ lastRunStatus.status = "Error"
          /\ lastRunStatus.error = RaisedMessage
          /\ ~isSyncRunning
          /\ pc[ev.proc] = "idle"
          /\ ev.ret = lastRunStatus
    /\ TransferRaised =>
          /\ ev.ret = NoRet
          /\ pc[ev.proc] = "loop"

\* the ledger write raised after a recording had already been processed
C6_Witness ==
    /\ LedgerWriteRaised
    /\ lastRunStatus.status = "Error"
    /\ lastRunStatus.processedCount = 1

\* ------------------------------------------------------------------------
\* C7  If the credential exchange returns an error payload or otherwise
\*     fails, the run ends with status Error, processedCount 0 and an error
\*     message; no listing call and no transfer is made and the ledger is as
\*     it was loaded.
\* ------------------------------------------------------------------------
C7_AuthFailure ==
    TokenRaised =>
        /\ lastRunStatus.status = "Error"
        /\ lastRunStatus.processedCount = 0
        /\ lastRunStatus.error # NoError
        /\ ~isSyncRunning
        /\ run.listCalls = 0
        /\ run.listing = <<>>
        /\ RunUntouched

\* the exchange answered with an error payload in a run that had loaded a
\* non-empty ledger
C7_Witness ==
    /\ ev.op = "token" /\ ev.input = "errorPayload"
    /\ run.loaded # EmptyLedger
    /\ lastRunStatus.status = "Error"

\* ------------------------------------------------------------------------
\* C8  If the listing call fails the whole run is aborted: status Error with
\*     the failure message, no transfer attempted, processedCount 0, ledger
\*     unchanged.
\* ------------------------------------------------------------------------
C8_ListFailure ==
    ListRaised =>
        /\ lastRunStatus.status = "Error"
        /\ lastRunStatus.error = MsgListHttp
        /\ lastRunStatus.processedCount = 0
        /\ ~isSyncRunning
        /\ pc[ev.proc] = "idle"
        /\ RunUntouched

C8_Witness ==
    /\ ListRaised
    /\ run.loaded # EmptyLedger
    /\ run.listCalls = 1
    /\ lastRunStatus.status = "Error"

\* ------------------------------------------------------------------------
\* C9  A failed transfer neither aborts the run nor marks the recording:
\*     the loop goes on through every remaining recording and the run ends
\*     Completed, also when every transfer of the run failed.
\* ------------------------------------------------------------------------
C9_TransferFailureContained ==
    /\ TransferRaised =>
          /\ pc[ev.proc] = "loop"
          /\ isSyncRunning
          /\ lastRunStatus.status = "Running"
          /\ uploadedRecordings[ev.rec.meetingId] = NoEntry
          /\ run.marks[ev.rec.meetingId] = 0
    /\ (ev.op \in {"get", "pipe", "loop", "complete"} /\ ev.ret # NoRet
            /\ ~LedgerWriteRaised) =>
          /\ ev.op = "complete"
          /\ lastRunStatus.status = "Completed"
          /\ run.examined = Len(run.listing)

\* a run over two recordings in which both transfers failed has ended
C9_Witness ==
    /\ ev.op = "complete"
    /\ lastRunStatus.status = "Completed"
    /\ lastRunStatus.processedCount = 0
    /\ Len(run.listing) = 2
    /\ \A id \in Ids : run.failed[id] = 1

\* ------------------------------------------------------------------------
\* C10 A recording whose readiness state is not ready, or whose source
\*     locator is absent, never reaches the destination write path (no
\*     destination write stream is opened for it) and is never marked
\*     transferred.
\* ------------------------------------------------------------------------
C10_SkipCorrectness ==
    (ev.op \in {"get", "pipe"} /\ ev.input \in ({"ok"} \cup FsErrors)) =>
        /\ ev.rec.ready
        /\ ev.rec.download_url # "none"

\* ------------------------------------------------------------------------
\* Vocabulary of the properties about a run and the run before it
\* ------------------------------------------------------------------------
\* the step just taken ended a run: runSync returned its summary
RunEnded == ev.op \in {"token", "list", "get", "pipe", "complete"} /\ ev.ret # NoRet

\* ------------------------------------------------------------------------
\* C11 (as claimed) runSync() invoked twice in succession, the provider
\*     returning no new recordings for the second run, yields
\*     processedCount = 0 on the second run.
\* ------------------------------------------------------------------------
C11_SecondRunProcessesNothing ==
    (RunEnded /\ run.nothingNew) => lastRunStatus.processedCount = 0

\* C11 (amended) If the first run ended Completed without a failed transfer,
\*     the persisted ledger was not lost, and every recording listed to the
\*     second run was listed to the first with the same source locator, the
\*     second run attempts no transfer and yields processedCount = 0.
C11_Idempotent ==
    (RunEnded /\ run.nothingNew /\ ~run.prev.failed /\ ledgerIntact) =>
        /\ lastRunStatus.processedCount = 0
        /\ lastRunStatus.status = "Completed"
        /\ run.attempts = NoCount
        /\ run.marks = NoCount

\* the second run has passed over a recording that the first run transferred
C11_Witness ==
    /\ ev.op = "complete" /\ run.nothingNew /\ ~run.prev.failed /\ ledgerIntact
    /\ lastRunStatus.processedCount = 0
    /\ \E k \in 1..Len(run.listing) :
          /\ run.listing[k].download_url = "mp4"
          /\ written[run.listing[k].meetingId] = 1

\* ------------------------------------------------------------------------
\* C12 If the process terminates after recording A was marked transferred
\*     and before the next recording B completed, the next run (a fresh
\*     process loading the persisted ledger) attempts a transfer of B and
\*     does not attempt A again.  The persisted ledger is taken as kept.
\* ------------------------------------------------------------------------
C12_CrashSafe ==
    (run.prev.kind = "crashed" /\ ledgerIntact) =>
        /\ \A a \in run.prev.marked : run.attempts[a] = 0 /\ RunWrites(a) = 0
        /\ \A k \in 1..Len(run.listing) :
              (/\ ev.op = "complete"
               /\ run.listing[k].meetingId = run.prev.inflight
               /\ run.listing[k].download_url = "mp4")
              => run.attempts[run.prev.inflight] >= 1

\* the run after the crash has completed, with A and B both listed again
C12_Witness ==
    /\ run.prev.kind = "crashed" /\ ledgerIntact /\ ev.op = "complete"
    /\ run.prev.inflight \notin run.prev.marked
    /\ \E j, k \in 1..Len(run.listing) :
          /\ run.listing[j].meetingId \in run.prev.marked
          /\ run.listing[j].download_url = "mp4"
          /\ run.listing[k].meetingId = run.prev.inflight
          /\ run.listing[k].download_url = "mp4"
    /\ run.attempts[run.prev.inflight] = 1
    /\ InLedger(run.prev.inflight)

\* ------------------------------------------------------------------------
\* Vocabulary of the properties about the result of one run
\* ------------------------------------------------------------------------
LedgerIds(ledger) == {i \in Ids : ledger[i] # NoEntry}
\* ids of the listed recordings that are ready, have a source locator and
\* were not in the ledger L
Eligible(listing, L) ==
    {listing[k].meetingId : k \in {j \in 1..Len(listing) :
        /\ listing[j].ready
        /\ listing[j].download_url # "none"
        /\ L[listing[j].meetingId] = NoEntry}}
\* every listed recording with a source locator is ready and its locator
\* designates a single file
DirectAndReady(listing) ==
    \A k \in 1..Len(listing) :
        listing[k].download_url # "none" =>
            listing[k].ready /\ listing[k].download_url = "mp4"

\* ------------------------------------------------------------------------
\* C13 For a starting ledger L and a listing R in which every attempted
\*     transfer succeeds, the run ends Completed with totalRecordings = |R|,
\*     processedCount = the number of ready recordings with a source locator
\*     in R that are not in L, and the ledger equal to L plus exactly those.
\* ------------------------------------------------------------------------
C13_RunResult ==
    (ev.op = "complete" /\ run.failed = NoCount) =>
        /\ lastRunStatus.status = "Completed"
        /\ lastRunStatus.totalRecordings = Len(run.listing)
        /\ lastRunStatus.processedCount = Cardinality(Eligible(run.listing, run.loaded))
        /\ LedgerIds(uploadedRecordings) =
              LedgerIds(run.loaded) \cup Eligible(run.listing, run.loaded)

\* the same result on the listings whose recordings with a locator are all
\* ready and directly readable
C13_RunResultDirectReady ==
    DirectAndReady(run.listing) => C13_RunResult

\* every listed recording was in the ledger the run loaded
AllListedInLedger ==
    \A k \in 1..Len(run.listing) : run.loaded[run.listing[k].meetingId] # NoEntry

\* ------------------------------------------------------------------------
\* C14 A recording that is in the ledger at run start is neither read from
\*     the source nor written to the destination in that run and its ledger
\*     entry keeps its timestamp; if every listed recording is in the ledger
\*     the run yields processedCount 0 and leaves the ledger unchanged.
\* ------------------------------------------------------------------------
C14_LedgerEntriesUntouched ==
    /\ \A i \in LedgerIds(run.loaded) :
          /\ run.attempts[i] = 0
          /\ RunWrites(i) = 0
          /\ run.marks[i] = 0
          /\ uploadedRecordings[i] = run.loaded[i]
    /\ (ev.op = "complete" /\ AllListedInLedger) =>
          /\ lastRunStatus.processedCount = 0
          /\ uploadedRecordings = run.loaded

\* a later run has finished over a listing of recordings marked by an
\* earlier one
C14_Witness ==
    /\ ev.op = "complete" /\ AllListedInLedger /\ Len(run.listing) > 0
    /\ lastRunStatus.processedCount = 0
    /\ \E i \in Ids : uploadedRecordings[i] # NoEntry /\ uploadedRecordings[i] < clock

\* the transitions of the orchestrator's state machine
ClaimedTransitions ==
    {<<"Idle", "Running">>, <<"Running", "Completed">>, <<"Running", "Error">>,
     <<"Completed", "Running">>, <<"Error", "Running">>}
\* the step is one of the running process and leaves status alone or changes
\* it along one of the given transitions
StatusStepWithin(transitions) ==
    ev'.op # "restart" =>
        \/ lastRunStatus'.status = lastRunStatus.status
        \/ <<lastRunStatus.status, lastRunStatus'.status>> \in transitions

\* ------------------------------------------------------------------------
\* C15 (as claimed) Within one process RunSummary.status changes only along
\*     Idle -> Running, Running -> Completed, Running -> Error,
\*     Completed -> Running and Error -> Running: it becomes Completed or
\*     Error only from Running and never returns to Idle.
\* ------------------------------------------------------------------------
C15_StatusTransitions == [][StatusStepWithin(ClaimedTransitions)]_vars

\* C15 (amended) Within one process status changes only along the five
\*     transitions above and Idle -> Error, which an invocation without
\*     destination-store configuration takes; it becomes Completed only from
\*     Running and never returns to Idle.
C15_StatusTransitionsWithConfigError ==
    [][StatusStepWithin(ClaimedTransitions \cup {<<"Idle", "Error">>})]_vars

\* a second run has been started after the first ended Completed
C15_Witness ==
    /\ ev.op = "runSync" /\ ev.input = "start"
    /\ lastRunStatus.status = "Running" /\ clock = 2
    /\ \E i \in Ids : run.loaded[i] # NoEntry /\ RunWrites(i) = 0 /\ written[i] > 0
    /\ uploadedRecordings = run.loaded

\* the invocation just made has recorded Error with a message
InvocationRecordedError ==
    ev.op = "runSync" =>
        /\ lastRunStatus.status = "Error"
        /\ lastRunStatus.error # NoError
        /\ ev.ret = lastRunStatus

\* ------------------------------------------------------------------------
\* C16 When required configuration is missing (the destination-store
\*     settings or the provider client id, secret or refresh credential) an
\*     invocation records status Error with a message, and status never
\*     takes the value Running during that invocation.
\* ------------------------------------------------------------------------
C16_ConfigErrorNeverRunning ==
    (~storageReady \/ ~zohoCreds) =>
        /\ lastRunStatus.status # "Running"
        /\ InvocationRecordedError

\* the half about the destination-store settings
C16_StorageConfigError ==
    ~storageReady =>
        /\ lastRunStatus.status # "Running"
        /\ InvocationRecordedError
        /\ lastRunStatus.error \in {NoError, MsgGcp}

\* without provider credentials the run ends in Error with the message of
\* getAccessToken, and no request is sent
C16_MissingCredsEndInError ==
    (storageReady /\ ~zohoCreds /\ RunEnded) =>
        /\ ev.op = "token"
        /\ lastRunStatus.status = "Error"
        /\ lastRunStatus.error = MsgCreds
        /\ run.tokenCalls = 0

\* ------------------------------------------------------------------------
\* C17 getSyncStatus() is a pure read: it can be called in every state,
\*     returns the current RunSummary at once, and changes neither the
\*     RunSummary, the run-in-progress flag nor the ledger.
\* ------------------------------------------------------------------------
C17_StatusIsPureRead ==
    [][/\ ENABLED GetSyncStatus
       /\ ev'.op = "status" =>
            /\ ev'.ret = lastRunStatus
            /\ response' = lastRunStatus
            /\ UNCHANGED <<lastRunStatus, isSyncRunning, uploadedRecordings,
                           statusFile, localVars>>]_vars

\* the status was read while a transfer was in flight
C17_Witness ==
    /\ ev.op = "status" /\ isSyncRunning
    /\ response = lastRunStatus /\ response.status = "Running"
    /\ InFlight # "none"

\* ------------------------------------------------------------------------
\* Vocabulary of the properties about the ledger file
\* ------------------------------------------------------------------------
\* the ledger a new process would load from the file
PersistedLedger(file) == LoadStatus(EmptyLedger, file)
\* a run is in its loop and no transfer is awaited
BetweenRecordings == \E p \in Procs : pc[p] = "loop"

\* ------------------------------------------------------------------------
\* C18 The ledger is persisted in full after every successful transfer,
\*     before the next recording is examined: from the load at run start to
\*     the end of the run, whenever the run is between recordings the
\*     persisted ledger equals the in-memory ledger.  The file is taken as
\*     changed by nobody else during the run.
\* ------------------------------------------------------------------------
C18_PersistedEqualsMemory ==
    (BetweenRecordings /\ run.fileKept) =>
        PersistedLedger(statusFile) = uploadedRecordings

\* the same for the runs that found the file, or had nothing in memory
C18_PersistedEqualsMemoryIfLoaded ==
    (BetweenRecordings /\ run.fileKept
        /\ (statusFile.exists \/ run.loaded = EmptyLedger)) =>
        PersistedLedger(statusFile) = uploadedRecordings

\* the write after a successful transfer replaces the file with the whole
\* in-memory ledger before the loop goes on
C18_PersistedInFullAfterTransfer ==
    (ev.op = "pipe" /\ ev.input = "ok") =>
        /\ statusFile = FileOf(uploadedRecordings)
        /\ uploadedRecordings[ev.rec.meetingId] # NoEntry
        /\ pc[ev.proc] = "loop"

\* runSync has just passed its guard and called loadStatus()
RunStarted == ev.op = "runSync" /\ ev.input = "start"

\* ------------------------------------------------------------------------
\* C19 At the start of every run, if the ledger file is missing or cannot be
\*     parsed, the run does not fail and goes on with an empty in-memory
\*     ledger: no identifier is treated as already transferred in that run.
\* ------------------------------------------------------------------------
C19_UnreadableLedgerLoadsEmpty ==
    (RunStarted /\ (~statusFile.exists \/ ~statusFile.parses)) =>
        /\ lastRunStatus.status = "Running"
        /\ uploadedRecordings = EmptyLedger
        /\ run.loaded = EmptyLedger

\* the half about a file that cannot be parsed
C19_CorruptLedgerLoadsEmpty ==
    (RunStarted /\ statusFile.exists /\ ~statusFile.parses) =>
        /\ lastRunStatus.status = "Running"
        /\ uploadedRecordings = EmptyLedger

\* a missing file leaves the run with what the process had in memory
C19_MissingLedgerKeepsMemory ==
    [][(ev'.op = "runSync" /\ ev'.input = "start" /\ ~statusFile.exists) =>
          /\ lastRunStatus'.status = "Running"
          /\ uploadedRecordings' = uploadedRecordings]_vars

\* counts over the identifiers, and the transfers awaited right now
RECURSIVE TotalOver(_, _)
TotalOver(f, S) ==
    IF S = {} THEN 0
    ELSE LET i == CHOOSE j \in S : TRUE
         IN  f[i] + TotalOver(f, S \ {i})
Total(f) == TotalOver(f, Ids)
TransfersInFlight == Cardinality({p \in Procs : pc[p] \in {"get", "pipe"}})

\* ------------------------------------------------------------------------
\* C20 The recordings of a run are processed strictly in sequence: at most
\*     one transfer is in flight, and the next transfer starts only after
\*     the one before it has returned and, if it succeeded, its ledger entry
\*     has been persisted.
\* ------------------------------------------------------------------------
C20_StrictlySequential ==
    /\ TransfersInFlight <= 1
    /\ Total(run.attempts) = Total(run.marks) + Total(run.failed) + TransfersInFlight
    /\ (ev.op = "loop" /\ ev.input = "stream" /\ run.fileKept) =>
          \A i \in Ids : run.marks[i] > 0 => PersistedLedger(statusFile)[i] # NoEntry

\* a second transfer has been started after the first one of the run was
\* marked and persisted
C20_Witness ==
    /\ ev.op = "loop" /\ ev.input = "stream" /\ TransfersInFlight = 1
    /\ \E i \in Ids :
          /\ i # ev.rec.meetingId
          /\ run.marks[i] = 1
          /\ PersistedLedger(statusFile)[i] # NoEntry
    /\ Total(run.attempts) = 2

\* how many times the listing names the identifier
Occurrences(listing, i) ==
    Cardinality({k \in 1..Len(listing) : listing[k].meetingId = i})

\* ------------------------------------------------------------------------
\* C21 Within one run each listed recording is attempted at most once: a
\*     failed transfer is not retried in the run.  A recording with a direct
\*     source locator that is listed to a run and absent from the ledger the
\*     run loaded has been attempted by the time the run ends Completed.
\* ------------------------------------------------------------------------
C21_RetryOnlyInNextRun ==
    /\ \A i \in Ids : run.attempts[i] <= Occurrences(run.listing, i)
    /\ ev.op = "complete" =>
          \A k \in 1..Len(run.listing) :
              (/\ run.loaded[run.listing[k].meetingId] = NoEntry
               /\ run.listing[k].download_url = "mp4")
              => run.attempts[run.listing[k].meetingId] >= 1

\* the run after one with a failed transfer was given the same listing and
\* has attempted, once, the recording the earlier run left out of the ledger
C21_Witness ==
    /\ ev.op = "complete" /\ run.nothingNew /\ run.prev.failed /\ ledgerIntact
    /\ \E i \in Ids :
          /\ run.loaded[i] = NoEntry
          /\ run.attempts[i] = 1
          /\ Occurrences(run.listing, i) = 1

\* ------------------------------------------------------------------------
\* Vocabulary of the properties about the scripts
\* ------------------------------------------------------------------------
\* the step just taken is a transfer of a script that met a read error, a
\* write error or a premature closure
ScriptTransferFailed ==
    /\ script.op \in {"get", "pipe"}
    /\ script.input \in {"readError", "writeError", "openError", "closed"}

\* ------------------------------------------------------------------------
\* C22 A read error, a write error or a premature closure of either stream
\*     ends the transfer as a failure: the transfer call finishes (it does
\*     not wait forever), does not report success, and the recording is not
\*     marked transferred.
\* ------------------------------------------------------------------------
C22_StreamFailureEndsTransfer ==
    ScriptTransferFailed =>
        /\ script.pc = "loop"
        /\ script.id \notin script.ledger
        /\ script.id \notin script.file

\* C22 for the scripts that pipe the source into the destination store
C22_StreamingScripts ==
    (ScriptTransferFailed /\ script.variant # "buffered") =>
        /\ script.pc = "loop"
        /\ script.id \notin script.ledger
        /\ script.id \notin script.file

\* C22 for the service: streamToGCS has returned false, the loop is at the
\* next recording and the recording was not marked by the step
C22_ServiceStreamFailure ==
    (ev.op \in {"get", "pipe"} /\ ev.input \in TransferErrors) =>
        /\ pc[ev.proc] = "loop"
        /\ run.marks[ev.rec.meetingId] + run.failed[ev.rec.meetingId]
              = run.attempts[ev.rec.meetingId]
        /\ run.marks[ev.rec.meetingId] > 0 => run.attempts[ev.rec.meetingId] > 1

\* ------------------------------------------------------------------------
\* C23 In the script that deletes the source recording after upload the
\*     ledger is marked and persisted before the deletion is attempted, and
\*     a failed deletion neither removes the ledger entry, nor changes the
\*     processed count, nor aborts the run.
\* ------------------------------------------------------------------------
C23_LedgerBeforeDeletion ==
    script.variant = "deleting" =>
        /\ script.pc = "delete" =>
              /\ script.listing[script.idx].meetingId \in script.ledger
              /\ script.listing[script.idx].meetingId \in script.file
        /\ script.deleted \subseteq script.file
        /\ script.op = "delete" =>
              /\ script.id \in script.ledger
              /\ script.id \in script.file
              /\ script.pc = "loop"
              /\ script.count = Cardinality(script.ledger \ script.loaded)

\* a deletion has failed after the second transfer of the run
C23_Witness ==
    /\ script.variant = "deleting"
    /\ script.op = "delete" /\ script.input = "failed"
    /\ script.id \in script.file /\ script.id \notin script.deleted
    /\ script.count = 2 /\ script.pc = "loop"

\* ------------------------------------------------------------------------
\* C24 A ready recording whose source locator designates a segmented
\*     stream manifest (.m3u8) is handled by the segmented-reassembly path:
\*     if nothing fails, its bytes are written to the destination and it is
\*     marked transferred and counted as processed.
\* ------------------------------------------------------------------------
C24_SegmentedRecordingTransferred ==
    (ev.op = "complete" /\ run.failed = NoCount) =>
        \A k \in 1..Len(run.listing) :
            (/\ run.listing[k].ready
             /\ run.listing[k].download_url = "m3u8"
             /\ run.loaded[run.listing[k].meetingId] = NoEntry)
            => /\ RunWrites(run.listing[k].meetingId) >= 1
               /\ uploadedRecordings[run.listing[k].meetingId] # NoEntry
               /\ lastRunStatus.processedCount >= 1

\* C24 in the local-file script: a manifest goes to ffmpeg, and what ffmpeg
\* produced is uploaded, marked, counted and removed from the local disk
C24_BufferedScriptReassembles ==
    script.variant = "buffered" =>
        /\ (script.op = "ffmpeg" /\ script.input = "ok") =>
              script.pc = "upload" /\ script.id \in script.local
        /\ (script.op = "upload" /\ script.input = "ok") =>
              /\ DestinationKey(script.id, 0) \in bucket
              /\ script.id \in script.ledger /\ script.id \in script.file
              /\ script.id \notin script.local
        /\ script.pc = "done" =>
              \A k \in 1..Len(script.listing) :
                  script.listing[k].download_url = "m3u8" =>
                      \/ script.listing[k].meetingId \in script.loaded
                      \/ script.listing[k].meetingId \notin script.ledger
                      \/ DestinationKey(script.listing[k].meetingId, 0) \in bucket

\* the service never starts a transfer for a manifest
C24_ServiceSkipsManifest ==
    /\ ev.op \in {"get", "pipe"} => ev.rec.download_url = "mp4"
    /\ (ev.op = "loop" /\ ev.rec.download_url = "m3u8") =>
          ev.input \in {"inLedger", "m3u8"}

\* ------------------------------------------------------------------------
\* C25 On the local-file transfer path no local file of a recording remains
\*     once the processing of that recording has ended, on every exit path:
\*     failed download or conversion, failed upload, or success.
\* ------------------------------------------------------------------------
C25_NoLocalFileLeft ==
    (script.variant = "buffered" /\ script.pc \in {"loop", "done"}) =>
        script.local = {}

\* C25 on the exit paths that pass the upload: main has the file path and
\* its finally block removes the file
C25_CleanAfterUpload ==
    (script.variant = "buffered" /\ script.op = "upload") =>
        script.id \notin script.local

\* ------------------------------------------------------------------------
\* C26 Every run that passes the single-flight guard and the configuration
\*     check makes exactly one token acquisition, before the listing call,
\*     and uses that run's token for the listing and for all its transfers:
\*     no token of an earlier run is reused.
\* ------------------------------------------------------------------------
C26_FreshTokenPerRun ==
    /\ RunStarted => run.tokenCalls = (IF zohoCreds THEN 1 ELSE 0)
    /\ run.tokenCalls <= 1
    /\ run.listCalls <= run.tokenCalls
    /\ \A p \in Procs :
          /\ pc[p] \in {"list", "loop", "get", "pipe"} =>
                /\ accessToken[p] = clock
                /\ run.tokenCalls = 1 /\ run.listCalls = 1
          /\ pc[p] \in {"idle", "token"} => accessToken[p] = 0

\* the second run of a process reads a recording with the token it acquired
C26_Witness ==
    /\ clock = 2 /\ ev.op = "loop" /\ ev.input = "stream"
    /\ accessToken[ev.proc] = 2 /\ pc[ev.proc] = "get"
    /\ run.tokenCalls = 1
    /\ \E i \in Ids : uploadedRecordings[i] = 1

\* ------------------------------------------------------------------------
\* C27 A token exchange that fails (transport failure, a response with an
\*     explicit error field, a malformed response without an access token)
\*     makes token acquisition fail and the run abort before the listing
\*     call: the listing is never invoked without a valid token.
\* ------------------------------------------------------------------------
C27_FailedExchangeAbortsBeforeListing ==
    /\ (script.op = "token" /\ script.input /= "ok") =>
          script.pc \in {"done", "exit1"}
    /\ script.listedWith /= "undefined"

\* syncService.js: every failed exchange ends the run in Error with no
\* listing request sent
C27_ServiceAbortsBeforeListing ==
    (ev.op = "token" /\ ev.input /= "ok") =>
        /\ pc[ev.proc] = "idle" /\ ~isSyncRunning
        /\ lastRunStatus.status = "Error"
        /\ run.listCalls = 0 /\ accessToken[ev.proc] = 0

\* scripts/sync.js checks the access token as the service does
C27_BufferedScriptAborts ==
    script.variant = "buffered" =>
        /\ script.listedWith /= "undefined"
        /\ (script.op = "token" /\ script.input /= "ok") => script.pc = "exit1"

\* ------------------------------------------------------------------------
\* C28 A malformed listing response (one that carries no recordings array)
\*     makes the listing fail and the run end in Error: it is not treated
\*     as an empty listing that lets the run end Completed with
\*     totalRecordings 0.
\* ------------------------------------------------------------------------
C28_MalformedListingFails ==
    (ev.op = "list" /\ ev.input = "noData") =>
        /\ ~isSyncRunning /\ pc[ev.proc] = "idle"
        /\ lastRunStatus.status = "Error"

\* what fetchRecordings does with it: the run goes on over an empty listing
\* and has nothing left to do but complete
C28_MalformedListingReadAsEmpty ==
    (ev.op = "list" /\ ev.input = "noData") =>
        /\ isSyncRunning /\ pc[ev.proc] = "loop"
        /\ recordings[ev.proc] = <<>> /\ totalRecordings[ev.proc] = 0
        /\ lastRunStatus.status = "Running"
        /\ ENABLED RunComplete(ev.proc)

\* a run that completes over no recordings reports totalRecordings 0
C28_EmptyRunCompletes ==
    (ev.op = "complete" /\ run.listing = <<>>) =>
        /\ lastRunStatus.status = "Completed"
        /\ lastRunStatus.totalRecordings = 0 /\ lastRunStatus.error = NoError

\* a listing request that is rejected does end the run in Error
C28_RejectedListingFails ==
    (ev.op = "list" /\ ev.input \notin {"ok", "noData"}) =>
        /\ ~isSyncRunning /\ lastRunStatus.status = "Error"

\* ------------------------------------------------------------------------
\* C29 Provided every I/O call (token exchange, listing, each read and write
\*     stream) eventually returns or fails, every run that enters Running
\*     eventually reaches Completed or Error and the run-in-progress flag
\*     becomes false; no operation aborts a run midway.  (A run is also over
\*     when its process ends, which is no operation of the program.)
\* ------------------------------------------------------------------------
C29_RunTerminates ==
    (isSyncRunning /\ lastRunStatus.status = "Running")
        ~> (~isSyncRunning /\ (lastRunStatus.status \in {"Completed", "Error"}
                               \/ ev.op = "restart"))

\* a run has ended Completed after a transfer of it failed and another
\* succeeded
C29_Witness ==
    /\ ev.op = "complete" /\ ~isSyncRunning
    /\ lastRunStatus.status = "Completed"
    /\ lastRunStatus.processedCount = 1 /\ lastRunStatus.totalRecordings = 2
    /\ \E i \in Ids : run.failed[i] > 0

\* the flag is cleared by nothing but the end of the run or of the process
C29_NoAbortMidway ==
    [][(isSyncRunning /\ ~isSyncRunning') =>
          \/ ev'.op = "restart"
          \/ /\ lastRunStatus'.status \in {"Completed", "Error"}
             /\ ev'.ret = lastRunStatus' /\ pc'[ev'.proc] = "idle"]_vars

\* the objects of the destination store whose key was derived from id
ObjectsOf(id) == {k \in bucket : k[1] = id}

\* ------------------------------------------------------------------------
\* C30 The destination object key is a deterministic, injective function of
\*     the recording identifier, so after any sequence of runs, including
\*     runs that transfer a recording again because the ledger was lost, the
\*     destination store holds at most one object per recording identifier.
\* ------------------------------------------------------------------------
C30_OneObjectPerRecording ==
    /\ \A i, j \in Ids : \A s, t \in 0..MaxClock :
          (DestinationKey(i, s) = DestinationKey(j, t)) <=> (i = j)
    /\ \A i \in Ids :
          /\ Cardinality(ObjectsOf(i)) <= 1
          /\ written[i] > 0 <=> ObjectsOf(i) = {DestinationKey(i, clock)}
    /\ Cardinality(bucket) = Cardinality({i \in Ids : written[i] > 0})

\* a recording was written a second time, in a later run, after the ledger
\* was lost, and the other recording was written too
C30_Witness ==
    /\ clock = 2 /\ ev.op = "pipe" /\ ev.input = "ok"
    /\ written[ev.rec.meetingId] = 2 /\ run.base[ev.rec.meetingId] = 1
    /\ ~ledgerIntact
    /\ Cardinality(bucket) = 2

\* src/index.js and the other scripts build the key the same way
C30_ScriptsOneObjectPerRecording ==
    \A i \in Ids :
        /\ Cardinality(ObjectsOf(i)) <= 1
        /\ ObjectsOf(i) # {} => i \in script.ledger \/ script.pc \in {"exit1", "done"}

\* ------------------------------------------------------------------------
\* C31 The manual-trigger endpoint calls runSync() without awaiting it and
\*     responds at once with the getSyncStatus() snapshot: the response is
\*     produced before any token, listing or transfer I/O of the triggered
\*     run completes, and when no run was active and storage is initialised
\*     the snapshot in the response has status Running.
\* ------------------------------------------------------------------------
C31_ManualTriggerRespondsAtOnce ==
    [][(ev'.op = "runSync" /\ ev'.proc = "manual" /\ ev' # ev) =>
          /\ response' = lastRunStatus'
          /\ (~isSyncRunning /\ storageReady) =>
                /\ ev'.input = "start"
                /\ response'.status = "Running"
                /\ isSyncRunning' /\ pc'["manual"] = "token"
                /\ accessToken'["manual"] = 0
                /\ run'.listCalls = 0 /\ run'.examined = 0
                /\ written' = written /\ uploadedRecordings' = run'.loaded]_vars

\* the endpoint has answered Running for a run it started after an earlier
\* run had ended
C31_Witness ==
    /\ ev.op = "runSync" /\ ev.proc = "manual" /\ ev.input = "start"
    /\ response.status = "Running" /\ response.timestamp = 2
    /\ pc["manual"] = "token" /\ isSyncRunning

\* run i of the scheduled script is between its start and its end
SchedRunning(i) == script.pc[i] \notin {"idle", "done"}

\* run i has a transfer of its current recording under way
SchedTransferring(i) == script.pc[i] \in {"get", "pipe"}

\* ------------------------------------------------------------------------
\* C32 In the standalone scheduled script a scheduled invocation that fires
\*     while an earlier invocation is still running does not execute
\*     concurrently with it: no two runs overlap and no recording is being
\*     transferred by two runs at the same time.
\* ------------------------------------------------------------------------
C32_ScheduledRunsDoNotOverlap ==
    \A i, j \in Invocations :
        i # j =>
            /\ ~(SchedRunning(i) /\ SchedRunning(j))
            /\ ~(SchedTransferring(i) /\ SchedTransferring(j)
                 /\ SchedCurrent(i) = SchedCurrent(j))

\* overlapping runs write a recording to the same key, and no run counts
\* more uploads than the store holds objects
C32_OverlapLeavesOneObject ==
    /\ \A id \in Ids : Cardinality(ObjectsOf(id)) <= 1
    /\ \A i \in Invocations :
          script.count[i] <= Cardinality({id \in Ids : ObjectsOf(id) # {}})

\* the flag and the published status agree, and both agree with whether a
\* run is parked on one of its awaits
FlagMatchesStatus(flag, summary, where) ==
    /\ flag <=> summary.status = "Running"
    /\ flag <=> \E p \in Procs : where[p] # "idle"

\* ------------------------------------------------------------------------
\* C33 At every point where another trigger or status read can interleave
\*     (every await of runSync and between invocations) the run-in-progress
\*     flag is true if and only if RunSummary.status is Running; the flag is
\*     false after every exit path of runSync, so a later trigger can
\*     always start a new run.  (An invocation turned away by the guard
\*     returns while the run it met goes on: the flag it leaves set is
\*     that run's.)
\* ------------------------------------------------------------------------
C33_FlagIffRunning ==
    [][/\ FlagMatchesStatus(isSyncRunning, lastRunStatus, pc)
       /\ FlagMatchesStatus(isSyncRunning', lastRunStatus', pc')
       /\ (ev' # ev /\ ev'.ret # NoRet /\ ev'.op # "status" /\ ev'.input # "skip") =>
             ~isSyncRunning'
       /\ (ev' # ev /\ ev'.op = "runSync" /\ ~isSyncRunning /\ storageReady) =>
             (ev'.input = "start" /\ isSyncRunning')]_vars

\* a trigger has started a run after an earlier run left through the catch
\* of the processing block
C33_Witness ==
    /\ ev.op = "runSync" /\ ev.input = "start" /\ clock = 2
    /\ isSyncRunning /\ lastRunStatus.status = "Running"
    /\ ~ledgerIntact

\* a summary carries an error message exactly when its status is Error
ErrorIffFailed(summary) ==
    (summary.error # NoError) <=> (summary.status = "Error")

\* ------------------------------------------------------------------------
\* C34 In every published RunSummary, error is non-null if and only if
\*     status is Error; entering Running or Completed always clears a
\*     previous error message.
\* ------------------------------------------------------------------------
C34_ErrorIffStatusError ==
    /\ ErrorIffFailed(lastRunStatus)
    /\ response # NoRet => ErrorIffFailed(response)
    /\ ev.ret \notin {NoRet, Rejected} => ErrorIffFailed(ev.ret)
    /\ lastRunStatus.status \in {"Idle", "Running", "Completed"} =>
          lastRunStatus.error = NoError

\* a scheduled run has entered Running right after a run that ended in
\* Error for missing credentials: the summary carries no message
C34_Witness ==
    /\ ev.op = "runSync" /\ ev.proc = "cron" /\ ev.input = "start"
    /\ ~zohoCreds /\ started /\ clock = 2
    /\ lastRunStatus.status = "Running" /\ lastRunStatus.error = NoError

\* the counts of a summary are within range
CountsInRange(summary) ==
    /\ 0 <= summary.processedCount
    /\ summary.processedCount <= summary.totalRecordings
    /\ summary.totalRecordings <= MaxListing

\* ------------------------------------------------------------------------
\* C35 In every published RunSummary 0 <= processedCount <= totalRecordings;
\*     while status is Running both counts are 0 whatever number of
\*     recordings the current run has transferred already: the counts are
\*     published only when the run ends.
\* ------------------------------------------------------------------------
C35_CountsPublishedAtEnd ==
    /\ CountsInRange(lastRunStatus)
    /\ CountsInRange(response)
    /\ CountsInRange(ev.ret)
    /\ \A p \in Procs : processedCount[p] <= totalRecordings[p]
    /\ lastRunStatus.status = "Running" =>
          /\ lastRunStatus.processedCount = 0
          /\ lastRunStatus.totalRecordings = 0
    /\ (response.status = "Running" \/ ev.ret.status = "Running") =>
          /\ response.processedCount = 0 /\ response.totalRecordings = 0
          /\ ev.ret.processedCount = 0 /\ ev.ret.totalRecordings = 0

\* a status read during a run that has transferred one of its two
\* recordings answers Running with both counts 0
C35_Witness ==
    /\ ev.op = "status" /\ response.status = "Running"
    /\ response.processedCount = 0 /\ response.totalRecordings = 0
    /\ \E p \in Procs : processedCount[p] = 1 /\ totalRecordings[p] = 2
    /\ \E i \in Ids : RunWrites(i) = 1

\* the identifiers the current run added to the in-memory ledger
AddedByRun == LedgerIds(uploadedRecordings) \ LedgerIds(run.loaded)

\* ------------------------------------------------------------------------
\* C36 When a run ends Completed, its processedCount equals the number of
\*     recording identifiers that the run added to the ledger, which equals
\*     the number of transfers that returned success in that run.
\* ------------------------------------------------------------------------
C36_CountEqualsAdded ==
    ev.op = "complete" =>
        /\ lastRunStatus.status = "Completed"
        /\ lastRunStatus.processedCount = Cardinality(AddedByRun)
        /\ lastRunStatus.processedCount = Total(run.marks)
        /\ lastRunStatus.processedCount = Total([i \in Ids |-> RunWrites(i)])
        /\ \A i \in Ids : run.marks[i] = RunWrites(i) /\ run.marks[i] <= 1
        /\ run.fileKept =>
              \A i \in AddedByRun : PersistedLedger(statusFile)[i] # NoEntry

\* a run has ended Completed with both listed recordings transferred and
\* added
C36_Witness ==
    /\ ev.op = "complete" /\ lastRunStatus.processedCount = 2
    /\ Cardinality(AddedByRun) = 2
    /\ \A i \in Ids : RunWrites(i) = 1

\* every entry of the persisted ledger is still there, with its timestamp,
\* after the step
PersistedEntriesKept ==
    \A i \in Ids :
        PersistedLedger(statusFile)[i] # NoEntry =>
            PersistedLedger(statusFile')[i] = PersistedLedger(statusFile)[i]

\* the step is the file being deleted or overwritten from outside
OutsideStep == ev'.op \in {"fileDelete", "fileDamage"}

\* ------------------------------------------------------------------------
\* C37 Provided the ledger file is neither deleted nor corrupted from
\*     outside, the persisted ledger only grows: across any sequence of runs
\*     no identifier is ever removed from it and the timestamp recorded for
\*     an identifier is never rewritten.
\* ------------------------------------------------------------------------
C37_PersistedLedgerOnlyGrows ==
    [][~OutsideStep => PersistedEntriesKept]_vars

\* every step of the program keeps the persisted entries, except a rewrite
\* of the file that fails after the file was opened for writing
C37_GrowsUnlessRewriteFails ==
    [][(~OutsideStep /\ ~(ev'.op = "pipe" /\ ev'.input = "truncated")) =>
          PersistedEntriesKept]_vars

\* a rewrite that succeeds adds the entry of the recording just transferred
\* and keeps the others
C37_RewriteAddsOneEntry ==
    [][(ev' # ev /\ ev'.op = "pipe" /\ ev'.input = "ok") =>
          /\ PersistedEntriesKept
          /\ PersistedLedger(statusFile')[ev'.rec.meetingId] # NoEntry]_vars

====
